---- MODULE Spec2Model ----
(***************************************************************************)
(* Batch audit orchestration of the SmartAudit dashboard.                  *)
(*                                                                         *)
(* The model follows src/components/Dashboard.tsx (document registry,      *)
(* batch orchestrator, preview), src/services/auditService.ts (judgment    *)
(* client) and src/services/wordParser.ts (content extractor boundary).    *)
(*                                                                         *)
(* JavaScript runs one task at a time: a handler or a promise continuation *)
(* runs to its next await without interleaving, so every action below is   *)
(* one event handler or one continuation, taken whole.  The user-visible   *)
(* message texts are Chinese in the source; they are written here as their *)
(* ASCII translations.                                                     *)
(***************************************************************************)
EXTENDS Naturals, Sequences, FiniteSets, Bags

VARIABLES
    files,              \* useState<DocFile[]>           Dashboard.tsx:31
    isProcessingBatch,  \* useState(false)               Dashboard.tsx:47
    expandedFiles,      \* useState<Set<string>>         Dashboard.tsx:50
    queue,              \* runBatchAudit: const queue    Dashboard.tsx:241
    workers,            \* live worker() calls, each awaiting processFile
    filesToProcess,     \* ids of runBatchAudit's filesToProcess
    dequeued,           \* ids taken by queue.shift() in the running batch
    previews,           \* preview clicks awaiting extractContentFromDocx
    nextId,             \* number of DocFile objects created so far, plus one
    usedIds,            \* the ids that Math.random has handed out so far
    extractCalls,       \* per id: calls of extractContentFromDocx so far (0, 1, more)
    call,               \* one call taken alone (analyzeReport, escape): input and result
    rules,              \* useState<RuleConfig[]>        Dashboard.tsx:33
    batchRules,         \* `rules` of the render whose runBatchAudit is running
    imports,            \* rule files handed to parseRulesFile, not yet settled
    now,                \* Date.now()
    alertMsg,           \* text of the alert() raised by the step just taken
    ruleOps             \* rule panel commands issued so far

\* the state of the rule panel but the alert
quietVars == <<rules, batchRules, imports, now, ruleOps>>

\* the state of the rule panel
ruleVars == <<rules, batchRules, imports, now, alertMsg, ruleOps>>

\* the state of the document list and of the batch orchestrator
docVars == <<files, isProcessingBatch, expandedFiles, queue, workers,
             filesToProcess, dequeued, previews, nextId, usedIds, extractCalls>>

vars == <<files, isProcessingBatch, expandedFiles, queue, workers,
          filesToProcess, dequeued, previews, nextId, usedIds, extractCalls, call,
          rules, batchRules, imports, now, alertMsg, ruleOps>>

----------------------------------------------------------------------------
(* Bounds *)

MaxDocs == 2          \* DocFile objects created over a run of Spec
MaxBatchDocs == 4     \* DocFile objects created over a run of SpecBatch
MaxPreviews == 1      \* preview extractions in flight at once
MaxRunDocs == 5       \* files of the one drop of a run of SpecRun
MaxRuleOps == 3       \* rule panel commands in a run of SpecRules
MaxClock == 1         \* last value of Date.now() in a run of SpecRules
MaxImports == 1       \* rule files being read at once
MaxAuditDocs == 1     \* DocFile objects created over a run of SpecAudit
MaxFieldLen == 3      \* characters of a text handed to escape in SpecExport
MaxExpandDocs == 2    \* DocFile objects created over a run of SpecExpand
MaxUploadDocs == 3    \* DocFile objects created over a run of SpecUpload

(* Program constants *)

CONCURRENT_LIMIT == 3

BatchNames == <<"a.docx", "b.docx", "c.docx", "d.docx", "e.docx", "f.docx">>

\* the ids that Math.random can hand out in a run: as many as the DocFile
\* objects created in the longest run
DocIds ==
    1..(CHOOSE n \in {MaxDocs, MaxBatchDocs, MaxRunDocs, MaxAuditDocs,
                      MaxExpandDocs, MaxUploadDocs} :
            \A k \in {MaxDocs, MaxBatchDocs, MaxRunDocs, MaxAuditDocs,
                      MaxExpandDocs, MaxUploadDocs} : k <= n)

----------------------------------------------------------------------------
(* types: AuditResult, AuditIssue, DocFile *)

NoResult == [status |-> "undefined"]

ProcessFileFailedSummary == "file processing failed."
DefaultErrorMessage == "audit service call failed, please retry later"
TimeoutErrorMessage == "request timed out (document too large or network slow)"

Issue(category, rule, description, severity) ==
    [category |-> category, rule |-> rule, description |-> description,
     severity |-> severity, location |-> ""]

AuditResult(status, summary, issues) ==
    [status |-> status, summary |-> summary, issues |-> issues]

DocFile(id, name) ==
    [id |-> id, file |-> [name |-> name], content |-> "",
     isProcessing |-> FALSE, auditResult |-> NoResult]

HasResult(f) == f.auditResult # NoResult

\* RuleConfig.id is a string: `default-${index}`, `${Date.now()}` or
\* `import-${Date.now()}-${i}`; the three parts are kept apart here
RuleId(prefix, ms, i) == [prefix |-> prefix, ms |-> ms, i |-> i]

RuleConfig(id, text, category, enabled) ==
    [id |-> id, text |-> text, category |-> category, enabled |-> enabled]

DEFAULT_RULES_LIST ==
    <<[text |-> "sample receipt date must not be later than test date",
       category |-> "workflow_logic"],
      [text |-> "numeric test results must lie in the required range",
       category |-> "result_determination"],
      [text |-> "the report must contain a conclusion section",
       category |-> "text_editing"],
      [text |-> "the report id must appear in the header or title",
       category |-> "text_editing"]>>

\* DEFAULT_RULES_LIST.map((item, index) => ({ id: `default-${index}`, ..., enabled: true }))
DefaultRules ==
    [k \in 1..Len(DEFAULT_RULES_LIST) |->
        RuleConfig(RuleId("default", 0, k - 1), DEFAULT_RULES_LIST[k].text,
                   DEFAULT_RULES_LIST[k].category, TRUE)]

----------------------------------------------------------------------------
(* Sequence helpers: Array.prototype.map / filter / findIndex *)

Range(s) == {s[i] : i \in 1..Len(s)}

Ids(s) == {s[i].id : i \in 1..Len(s)}

Map(s, Op(_)) == [i \in 1..Len(s) |-> Op(s[i])]

RECURSIVE SeqToBag(_)
SeqToBag(s) ==
    IF s = <<>> THEN EmptyBag ELSE SetToBag({Head(s)}) (+) SeqToBag(Tail(s))

Min(a, b) == IF a <= b THEN a ELSE b

\* mutant: the completion write waits until no document is queued
ReplaceWhenQueueEmpty(s, g) ==
    IF Len(queue) > 0 THEN s
    ELSE Map(s, LAMBDA f : IF f.id = g.id THEN g ELSE f)

\* prev.map(f => f.id === g.id ? g : f)
ReplaceById(s, g) == Map(s, LAMBDA f : IF f.id = g.id THEN g ELSE f)

\* mutant: the rule texts are sent whether the rules are enabled or not
AllRuleTexts(rs) == Map(rs, LAMBDA r : r.text)

\* rules.filter(r => r.enabled).map(r => r.text)
ActiveRuleTexts(rs) == Map(SelectSeq(rs, LAMBDA r : r.enabled), LAMBDA r : r.text)

----------------------------------------------------------------------------
(* Content extractor boundary: the html that mammoth yields for a file.    *)
(* b.docx is a document with nothing in it, which yields the empty string. *)

Html(file) ==
    CASE file.name = "a.docx" -> "<p>a</p>"
      [] file.name = "b.docx" -> ""
      [] file.name = "c.docx" -> "<p>c</p>"
      [] file.name = "d.docx" -> "<p>d</p>"
      [] file.name = "e.docx" -> "<p>e</p>"
      [] OTHER -> "<p>f</p>"

----------------------------------------------------------------------------
(* Judgment client: analyzeReport.  A fetch outcome is what the network    *)
(* hands back: a rejection (error name and message) or a Response (ok,     *)
(* status, and a body that parses as JSON or does not).                    *)

Rejected(name, message) == [kind |-> "reject", name |-> name, message |-> message]

Response(status, body) == [kind |-> "response", status |-> status, body |-> body]

MalformedBody == [malformed |-> TRUE]

\* a body whose reading is cut short: AbortSignal.timeout(30000) fires while
\* response.json() waits for the rest of the body
AbortedBody == [aborted |-> TRUE]

\* AbortSignal.timeout(30000): the reason of the signal, a DOMException named
\* TimeoutError, is what fetch rejects with and what response.json() throws
TimeoutRejection == Rejected("TimeoutError", "signal timed out")

\* response.ok: status in the range 200-299
ResponseOk(r) == r.status >= 200 /\ r.status <= 299

\* `request failed [${response.status}]`
RequestFailedMessage(status) ==
    CASE status = 199 -> "request failed [199]"
      [] status = 300 -> "request failed [300]"
      [] status = 400 -> "request failed [400]"
      [] status = 404 -> "request failed [404]"
      [] status = 429 -> "request failed [429]"
      [] status = 500 -> "request failed [500]"
      [] status = 503 -> "request failed [503]"

\* mutant: the catch block of analyzeReport returns no issue
AnalyzeReportCatchNoIssue(error) ==
    AuditResult("ERROR",
                IF error.name = "AbortError" THEN TimeoutErrorMessage
                ELSE IF error.message # "" THEN error.message
                ELSE DefaultErrorMessage,
                <<>>)

\* the catch block of analyzeReport
AnalyzeReportCatch(error) ==
    LET errorMessage ==
            IF error.name = "AbortError" THEN TimeoutErrorMessage
            ELSE IF error.message # "" THEN error.message
            ELSE DefaultErrorMessage
    IN AuditResult("ERROR", errorMessage,
                   <<Issue("special_rules", "service call failed", errorMessage, "high")>>)

\* what the try block throws, if it throws
ThrownBy(outcome) ==
    IF outcome.kind = "reject" THEN [name |-> outcome.name, message |-> outcome.message]
    ELSE IF ~ResponseOk(outcome)
         THEN [name |-> "Error", message |-> RequestFailedMessage(outcome.status)]
    ELSE IF outcome.body = AbortedBody
         THEN [name |-> TimeoutRejection.name, message |-> TimeoutRejection.message]
    ELSE [name |-> "SyntaxError", message |-> "Unexpected token in JSON"]

\* the try block throws before `await response.json()`
ThrowsAtOnce(outcome) == outcome.kind = "reject" \/ ~ResponseOk(outcome)

Throws(outcome) ==
    \/ ThrowsAtOnce(outcome)
    \/ outcome.body = MalformedBody
    \/ outcome.body = AbortedBody

analyzeReport(outcome) ==
    IF Throws(outcome) THEN AnalyzeReportCatch(ThrownBy(outcome))
    ELSE outcome.body

----------------------------------------------------------------------------
(* Fetch outcomes drawn in a batch run *)

ServerIssue == Issue("text_editing", "rule", "finding", "medium")

PassBody == AuditResult("PASS", "ok", <<>>)
FailBody == AuditResult("FAIL", "1 problem", <<ServerIssue>>)

BatchOutcomes ==
    {Response(200, PassBody), Response(200, FailBody), TimeoutRejection}

(* Fetch outcomes for a call of analyzeReport taken alone.  A 2xx body that *)
(* parses is a verdict of the shape api/analyze-report.ts sends.            *)

WarningBody == AuditResult("WARNING", "1 warning", <<ServerIssue>>)

ServerErrorBody ==
    AuditResult("ERROR", "audit failed: upstream",
                <<Issue("special_rules", "AI audit service error", "upstream", "high")>>)

Bodies == {MalformedBody, PassBody, FailBody, WarningBody, ServerErrorBody}

Statuses == {199, 200, 201, 299, 300, 400, 404, 429, 500, 503}

ErrorNames == {"TypeError", "TimeoutError", "AbortError"}

ErrorMessages == {"", "Failed to fetch", "signal timed out"}

FetchOutcomes ==
    {Rejected(n, m) : n \in ErrorNames, m \in ErrorMessages}
        \cup {Response(st, b) : st \in Statuses, b \in Bodies}

NoCall == [state |-> "idle"]

----------------------------------------------------------------------------
Init ==
    /\ files = <<>>
    /\ isProcessingBatch = FALSE
    /\ expandedFiles = {}
    /\ queue = <<>>
    /\ workers = EmptyBag
    /\ filesToProcess = <<>>
    /\ dequeued = <<>>
    /\ previews = EmptyBag
    /\ nextId = 1
    /\ usedIds = {}
    /\ extractCalls = [i \in DocIds |-> 0]
    /\ call = NoCall
    /\ rules = DefaultRules
    /\ batchRules = DefaultRules
    /\ imports = EmptyBag
    /\ now = 0
    /\ alertMsg = ""
    /\ ruleOps = 0

----------------------------------------------------------------------------
(* Document registry: processNewFiles, removeFile *)

NameExists(name) == \E i \in 1..Len(files) : files[i].file.name = name

\* files.findIndex(f => f.file.name === name), for a name that exists
FindIndex(name) ==
    CHOOSE i \in 1..Len(files) :
        /\ files[i].file.name = name
        /\ \A j \in 1..(i - 1) : files[j].file.name # name

\* the forEach of processNewFiles: a file is skipped when its name exists and
\* the overwrite is declined, and gets a new DocFile otherwise
Skipped(fileList, confirm, k) == NameExists(fileList[k]) /\ ~confirm[k]

\* ids is what the calls of Math.random().toString(36).substring(7) return,
\* one for each DocFile created
RECURSIVE NewDocFiles(_, _, _, _)
NewDocFiles(fileList, confirm, k, ids) ==
    IF k > Len(fileList) THEN <<>>
    ELSE IF Skipped(fileList, confirm, k)
         THEN NewDocFiles(fileList, confirm, k + 1, ids)
    ELSE <<DocFile(Head(ids), fileList[k])>>
            \o NewDocFiles(fileList, confirm, k + 1, Tail(ids))

\* the files of the list that get a DocFile
NumTaken(fileList, confirm) ==
    Cardinality({k \in 1..Len(fileList) : ~Skipped(fileList, confirm, k)})

\* the ids that n calls of Math.random can return after the ids of used:
\* each is an id handed out before, or a new one (ids are told apart by
\* equality only; the new one is numbered after those handed out)
RECURSIVE RandomIdsAfter(_, _)
RandomIdsAfter(used, n) ==
    IF n = 0 THEN {<<>>}
    ELSE UNION {{<<id>> \o rest : rest \in RandomIdsAfter(used \cup {id}, n - 1)} :
                    id \in used \cup {Cardinality(used) + 1}}

RandomIds(n) == RandomIdsAfter(usedIds, n)

\* ids handed to removeFile inside the forEach
OverwrittenIds(fileList, confirm) ==
    {files[FindIndex(fileList[k])].id :
        k \in {j \in 1..Len(fileList) : NameExists(fileList[j]) /\ confirm[j]}}

\* setFiles(prev => prev.filter(f => f.id !== id))
WithoutId(prev, id) == SelectSeq(prev, LAMBDA f : f.id # id)

WithoutIds(prev, ids) == SelectSeq(prev, LAMBDA f : f.id \notin ids)

\* setFiles(prev => [...prev.filter(not in namesToRemove), ...newDocFiles])
MergeNewFiles(prev, newDocFiles) ==
    LET namesToRemove == {newDocFiles[i].file.name : i \in 1..Len(newDocFiles)}
    IN SelectSeq(prev, LAMBDA f : f.file.name \notin namesToRemove) \o newDocFiles

ProcessNewFiles(fileList, confirm, ids) ==
    LET newDocFiles == NewDocFiles(fileList, confirm, 1, ids)
        afterRemove == WithoutIds(files, OverwrittenIds(fileList, confirm))
    IN /\ files' = IF Len(newDocFiles) > 0
                    THEN MergeNewFiles(afterRemove, newDocFiles)
                    ELSE afterRemove
       /\ nextId' = nextId + Len(newDocFiles)
       /\ usedIds' = usedIds \cup Ids(newDocFiles)
       /\ UNCHANGED <<isProcessingBatch, expandedFiles, queue, workers,
                      filesToProcess, dequeued, previews, extractCalls, call, quietVars>>
       /\ alertMsg' = ""

\* handleFileUpload: the files of the file input, as they are
HandleFileUpload(fileList, confirm, ids) == ProcessNewFiles(fileList, confirm, ids)

\* f.name.endsWith('.docx') || f.name.endsWith('.DOCX')
IsDocx(name) ==
    name \in {"a.docx", "b.docx", "c.docx", "d.docx", "e.docx", "f.docx", "G.DOCX"}

\* alert("please drop files in .docx format")
DropNotDocxMessage == "please drop files in .docx format"

\* handleDrop: the dropped files that are named .docx or .DOCX go to
\* processNewFiles; when there is none, an alert is raised
HandleDrop(fileList, confirm, ids) ==
    LET droppedFiles == SelectSeq(fileList, IsDocx)
    IN IF Len(droppedFiles) > 0
       THEN ProcessNewFiles(droppedFiles, confirm, ids)
       ELSE /\ alertMsg' = DropNotDocxMessage
            /\ UNCHANGED <<docVars, call, quietVars>>

RemoveFile(id) ==
    /\ id \in Ids(files)
    /\ files' = WithoutId(files, id)
    /\ UNCHANGED <<isProcessingBatch, expandedFiles, queue, workers,
                   filesToProcess, dequeued, previews, nextId, usedIds, extractCalls, call, quietVars>>
    /\ alertMsg' = ""

----------------------------------------------------------------------------
(* Batch orchestrator: processFile, runBatchAudit, worker *)

\* A worker awaiting processFile(docFile): the call is suspended either in
\* extractContentFromDocx or in analyzeReport(content, activeRuleTexts); in
\* the second case the task holds the request that was sent.
Task(docFile, stage, content, activeRuleTexts) ==
    [file |-> docFile, stage |-> stage, content |-> content, rules |-> activeRuleTexts]

\* processFile up to its first await; closureRules is the `rules` of the
\* render that processFile belongs to
StartProcessFile(docFile, closureRules) ==
    IF docFile.content = ""
    THEN Task(docFile, "extract", "", <<>>)
    ELSE Task(docFile, "judge", docFile.content, ActiveRuleTexts(closureRules))

\* processFile: return { ...docFile, content, auditResult: result, isProcessing: false }
ProcessFileReturn(docFile, content, result) ==
    [docFile EXCEPT !.content = content, !.auditResult = result,
                    !.isProcessing = FALSE]

\* mutant: the catch block of processFile adds an issue, as analyzeReport does
ProcessFileCatchWithIssue(docFile) ==
    [docFile EXCEPT !.isProcessing = FALSE,
                    !.auditResult =
                        AuditResult("ERROR", ProcessFileFailedSummary,
                                    <<Issue("special_rules", "file processing failed",
                                            ProcessFileFailedSummary, "high")>>)]

\* processFile: the object returned by the catch block
ProcessFileCatch(docFile) ==
    [docFile EXCEPT !.isProcessing = FALSE,
                    !.auditResult = AuditResult("ERROR", ProcessFileFailedSummary, <<>>)]

\* files.filter(f => !f.auditResult)
Unprocessed(fs) == SelectSeq(fs, LAMBDA f : ~HasResult(f))

\* prev.map(f => filesToProcess.find(ftp => ftp.id === f.id) ? {...f, isProcessing: true} : f)
MarkProcessing(prev, toProcess) ==
    Map(prev, LAMBDA f : IF f.id \in Ids(toProcess)
                         THEN [f EXCEPT !.isProcessing = TRUE] ELSE f)

\* mutant: one worker per document
WorkerCountNoCap(n) == n

\* Math.min(filesToProcess.length, CONCURRENT_LIMIT)
WorkerCount(n) == Min(n, CONCURRENT_LIMIT)

\* mutant: the worker reads the head of the queue and leaves it there
ShiftKeep(q) == q

\* queue.shift(): the queue that is left
Shift(q) == Tail(q)

\* worker(): one pass of the loop head; the file taken, worker's call of
\* processFile({ ...file, isProcessing: true })
TakeTask(q, closureRules) ==
    StartProcessFile([Head(q) EXCEPT !.isProcessing = TRUE], closureRules)

\* Array(n).fill(null).map(() => worker()): each worker runs to its first
\* await before the next one is created; a worker that finds the queue empty
\* returns at once.
RECURSIVE Spawn(_, _, _, _)
Spawn(n, q, started, closureRules) ==
    IF n = 0 \/ Len(q) = 0 THEN [queue |-> q, started |-> started]
    ELSE Spawn(n - 1, Shift(q), Append(started, TakeTask(q, closureRules)), closureRules)

\* extractContentFromDocx is entered once for every task that starts in
\* stage "extract"; the count of a file stops at "more than once"
CountExtract(calls, started) ==
    [i \in DocIds |->
        LET n == calls[i] + Cardinality({k \in 1..Len(started) :
                        started[k].stage = "extract" /\ started[k].file.id = i})
        IN IF n > 1 THEN 2 ELSE n]

\* mutant: the start button stays enabled during a batch
StartDisabledWhenEmpty == Len(files) = 0

\* disabled={isProcessingBatch || files.length === 0}
StartDisabled == isProcessingBatch \/ Len(files) = 0

RunBatchAudit ==
    /\ ~StartDisabled
    /\ LET toProcess == Unprocessed(files)
           spawned == Spawn(WorkerCount(Len(toProcess)), toProcess, <<>>, rules)
           started == spawned.started
       IN /\ files' = MarkProcessing(files, toProcess)
          /\ queue' = spawned.queue
          /\ workers' = workers (+) SeqToBag(started)
          /\ dequeued' = Map(started, LAMBDA t : t.file.id)
          /\ extractCalls' = CountExtract(extractCalls, started)
          \* with no worker, Promise.all([]) resolves in the same tick
          /\ isProcessingBatch' = (Len(started) > 0)
          /\ filesToProcess' = IF Len(started) > 0
                               THEN Map(toProcess, LAMBDA f : f.id) ELSE <<>>
    /\ batchRules' = rules
    /\ UNCHANGED <<expandedFiles, previews, nextId, usedIds, call, rules, imports, now, ruleOps>>
    /\ alertMsg' = ""

\* mutant: every completed document is expanded
AutoExpandAnyVerdict(prev, processed) == prev \cup {processed.id}

\* if (processed.auditResult && processed.auditResult.issues.length > 0)
\*     setExpandedFiles(prev => new Set(prev).add(processed.id))
AutoExpand(prev, processed) ==
    IF HasResult(processed) /\ Len(processed.auditResult.issues) > 0
    THEN prev \cup {processed.id}
    ELSE prev

\* mutant: a worker whose document failed leaves the loop
WorkerStopsOnError(t, processed) ==
    /\ files' = ReplaceById(files, processed)
    /\ expandedFiles' = AutoExpand(expandedFiles, processed)
    /\ IF Len(queue) > 0 /\ processed.auditResult.status # "ERROR"
       THEN /\ queue' = Shift(queue)
            /\ workers' = (workers (-) SetToBag({t})) (+) SetToBag({TakeTask(queue, batchRules)})
            /\ dequeued' = Append(dequeued, Head(queue).id)
            /\ extractCalls' = CountExtract(extractCalls, <<TakeTask(queue, batchRules)>>)
            /\ UNCHANGED <<isProcessingBatch, filesToProcess>>
       ELSE /\ workers' = workers (-) SetToBag({t})
            /\ IF workers' = EmptyBag
               THEN /\ isProcessingBatch' = FALSE
                    /\ filesToProcess' = <<>>
                    /\ dequeued' = <<>>
               ELSE UNCHANGED <<isProcessingBatch, filesToProcess, dequeued>>
            /\ UNCHANGED <<queue, extractCalls>>
    /\ UNCHANGED <<previews, nextId, usedIds, call, quietVars>>
    /\ alertMsg' = ""

\* worker(): from the return of processFile to the next await or to the end
\* of the loop; Promise.all resolves when the last worker returns.
WorkerContinue(t, processed) ==
    /\ files' = ReplaceById(files, processed)
    /\ expandedFiles' = AutoExpand(expandedFiles, processed)
    /\ IF Len(queue) > 0
       THEN /\ queue' = Shift(queue)
            /\ workers' = (workers (-) SetToBag({t})) (+) SetToBag({TakeTask(queue, batchRules)})
            /\ dequeued' = Append(dequeued, Head(queue).id)
            /\ extractCalls' = CountExtract(extractCalls, <<TakeTask(queue, batchRules)>>)
            /\ UNCHANGED <<isProcessingBatch, filesToProcess>>
       ELSE /\ workers' = workers (-) SetToBag({t})
            /\ IF workers' = EmptyBag
               THEN /\ isProcessingBatch' = FALSE
                    /\ filesToProcess' = <<>>
                    /\ dequeued' = <<>>
               ELSE UNCHANGED <<isProcessingBatch, filesToProcess, dequeued>>
            /\ UNCHANGED <<queue, extractCalls>>
    /\ UNCHANGED <<previews, nextId, usedIds, call, quietVars>>
    /\ alertMsg' = ""

\* extractContentFromDocx resolves inside processFile: the active rules are
\* read and analyzeReport is called
ExtractResolve(t) ==
    /\ BagIn(t, workers)
    /\ t.stage = "extract"
    /\ workers' = (workers (-) SetToBag({t}))
                     (+) SetToBag({Task(t.file, "judge", Html(t.file.file),
                                        ActiveRuleTexts(batchRules))})
    /\ UNCHANGED <<files, isProcessingBatch, expandedFiles, queue,
                   filesToProcess, dequeued, previews, nextId, usedIds, extractCalls, call, quietVars>>
    /\ alertMsg' = ""

\* mutant: a failed extraction goes on to the judgment call, with no content
ExtractRejectThenJudge(t) ==
    /\ BagIn(t, workers)
    /\ t.stage = "extract"
    /\ workers' = (workers (-) SetToBag({t}))
                     (+) SetToBag({Task(t.file, "judge", "", ActiveRuleTexts(batchRules))})
    /\ UNCHANGED <<files, isProcessingBatch, expandedFiles, queue,
                   filesToProcess, dequeued, previews, nextId, usedIds, extractCalls, call, quietVars>>
    /\ alertMsg' = ""

\* extractContentFromDocx rejects inside processFile: the catch block
ExtractReject(t) ==
    /\ BagIn(t, workers)
    /\ t.stage = "extract"
    /\ WorkerContinue(t, ProcessFileCatch(t.file))

\* the fetch of analyzeReport settles
JudgeResolve(t, outcome) ==
    /\ BagIn(t, workers)
    /\ t.stage = "judge"
    /\ WorkerContinue(t, ProcessFileReturn(t.file, t.content, analyzeReport(outcome)))

----------------------------------------------------------------------------
(* Preview button *)

\* alert("cannot preview file")
PreviewFailedMessage == "cannot preview file"

PreviewClick(i) ==
    /\ i \in 1..Len(files)
    /\ files[i].content = ""
    /\ BagCardinality(previews) < MaxPreviews
    /\ previews' = previews (+) SetToBag({files[i]})
    /\ extractCalls' = CountExtract(extractCalls, <<Task(files[i], "extract", "", <<>>)>>)
    /\ UNCHANGED <<files, isProcessingBatch, expandedFiles, queue, workers,
                   filesToProcess, dequeued, nextId, usedIds, call, quietVars>>
    /\ alertMsg' = ""

PreviewResolve(file) ==
    /\ BagIn(file, previews)
    /\ LET updatedFile == [file EXCEPT !.content = Html(file.file)]
       IN files' = ReplaceById(files, updatedFile)
    /\ previews' = previews (-) SetToBag({file})
    /\ UNCHANGED <<isProcessingBatch, expandedFiles, queue, workers,
                   filesToProcess, dequeued, nextId, usedIds, extractCalls, call, quietVars>>
    /\ alertMsg' = ""

PreviewReject(file) ==
    /\ BagIn(file, previews)
    /\ previews' = previews (-) SetToBag({file})
    /\ UNCHANGED <<files, isProcessingBatch, expandedFiles, queue, workers,
                   filesToProcess, dequeued, nextId, usedIds, extractCalls, call, quietVars>>
    /\ alertMsg' = PreviewFailedMessage

----------------------------------------------------------------------------
\* the file lists of one upload or drop: one file, two files, two files of
\* the same name
FileLists ==
    {<<"a.docx">>, <<"b.docx">>, <<"a.docx", "b.docx">>, <<"a.docx", "a.docx">>}

\* window.confirm is asked only for a name that exists
Confirms(fileList) ==
    {confirm \in [1..Len(fileList) -> BOOLEAN] :
        \A k \in 1..Len(fileList) : ~NameExists(fileList[k]) => confirm[k]}

Upload ==
    \E fileList \in FileLists : \E confirm \in Confirms(fileList) :
        /\ nextId + Len(fileList) <= MaxDocs + 1
        /\ \E ids \in RandomIds(NumTaken(fileList, confirm)) :
            HandleFileUpload(fileList, confirm, ids)

Remove == \E id \in DocIds : RemoveFile(id)

ExtractDone == \E t \in BagToSet(workers) : ExtractResolve(t)

ExtractFail == \E t \in BagToSet(workers) : ExtractReject(t)

JudgeDone ==
    \E t \in BagToSet(workers) : \E outcome \in BatchOutcomes : JudgeResolve(t, outcome)

Preview == \E i \in 1..Len(files) : PreviewClick(i)

PreviewDone == \E file \in BagToSet(previews) : PreviewResolve(file)

PreviewFail == \E file \in BagToSet(previews) : PreviewReject(file)

Next ==
    \/ Upload
    \/ Remove
    \/ RunBatchAudit
    \/ ExtractDone
    \/ ExtractFail
    \/ JudgeDone
    \/ Preview
    \/ PreviewDone
    \/ PreviewFail

Spec == Init /\ [][Next]_vars

----------------------------------------------------------------------------
(* Batch runs over more documents than CONCURRENT_LIMIT: uploads of up to   *)
(* MaxBatchDocs files with distinct names in all, batch runs and removals.  *)

UploadBatch ==
    \E n \in 1..Min(MaxBatchDocs, Len(BatchNames)) :
        /\ nextId + n <= Min(MaxBatchDocs, Len(BatchNames)) + 1
        /\ \E ids \in RandomIds(n) :
            ProcessNewFiles(SubSeq(BatchNames, nextId, nextId + n - 1),
                            [k \in 1..n |-> TRUE], ids)

NextBatch ==
    \/ UploadBatch
    \/ Remove
    \/ RunBatchAudit
    \/ ExtractDone
    \/ ExtractFail
    \/ JudgeDone

SpecBatch == Init /\ [][NextBatch]_vars

----------------------------------------------------------------------------
(* The document list alone: file selections, drops and removals, of up to   *)
(* MaxUploadDocs files in all.                                              *)

\* the file lists of a drop that holds files of other kinds
DropLists ==
    {<<"x.txt">>, <<"x.txt", "a.docx">>, <<"G.DOCX">>, <<"b.docx", "x.txt", "a.docx">>}

UploadFiles ==
    \E fileList \in FileLists : \E confirm \in Confirms(fileList) :
        /\ nextId + Len(fileList) <= MaxUploadDocs + 1
        /\ \E ids \in RandomIds(NumTaken(fileList, confirm)) :
            HandleFileUpload(fileList, confirm, ids)

DropFiles ==
    \E fileList \in DropLists :
        \E confirm \in Confirms(SelectSeq(fileList, IsDocx)) :
            /\ nextId + Len(SelectSeq(fileList, IsDocx)) <= MaxUploadDocs + 1
            /\ \E ids \in RandomIds(NumTaken(SelectSeq(fileList, IsDocx), confirm)) :
                HandleDrop(fileList, confirm, ids)

NextUpload ==
    \/ UploadFiles
    \/ DropFiles
    \/ Remove

SpecUpload == Init /\ [][NextUpload]_vars

\* every pending extraction and every pending judgment call eventually
\* resolves or rejects: extractContentFromDocx settles when the file has
\* been read, and the fetch of analyzeReport settles within its 30 s timeout
SpecBatchFair ==
    /\ Init /\ [][NextBatch]_vars
    /\ WF_vars(ExtractDone \/ ExtractFail)
    /\ WF_vars(JudgeDone)

----------------------------------------------------------------------------
(* Detail rows: the button that opens and closes the issue list of a        *)
(* document is shown for a document whose verdict is not PASS.  Batch runs  *)
(* over up to MaxExpandDocs documents with the button in use.               *)

ToggleExpand(id) ==
    /\ expandedFiles' = IF id \in expandedFiles
                        THEN expandedFiles \ {id}
                        ELSE expandedFiles \cup {id}
    /\ UNCHANGED <<files, isProcessingBatch, queue, workers, filesToProcess,
                   dequeued, previews, nextId, usedIds, extractCalls, call, quietVars>>
    /\ alertMsg' = ""

ExpandClick ==
    \E i \in 1..Len(files) :
        /\ HasResult(files[i])
        /\ files[i].auditResult.status # "PASS"
        /\ ToggleExpand(files[i].id)

UploadExpand ==
    \E n \in 1..Min(MaxExpandDocs, Len(BatchNames)) :
        /\ nextId + n <= Min(MaxExpandDocs, Len(BatchNames)) + 1
        /\ \E ids \in RandomIds(n) :
            ProcessNewFiles(SubSeq(BatchNames, nextId, nextId + n - 1),
                            [k \in 1..n |-> TRUE], ids)

NextExpand ==
    \/ UploadExpand
    \/ Remove
    \/ RunBatchAudit
    \/ ExtractDone
    \/ ExtractFail
    \/ JudgeDone
    \/ ExpandClick

SpecExpand == Init /\ [][NextExpand]_vars

----------------------------------------------------------------------------
(* Rule panel: addRule, removeRule, toggleRule, handleRuleImport and        *)
(* parseRulesFile.  A rule file is what the FileReader and XLSX hand back:  *)
(* unreadable, or the rows of the first sheet; a cell is a string, a        *)
(* number, or undefined.                                                    *)

Str(v) == [t |-> "string", v |-> v]
Num == [t |-> "number", v |-> "5"]
Undef == [t |-> "undefined", v |-> ""]

RuleTypeLabel == "rule type"
RuleContentLabel == "rule content"

EmptyFileMessage == "file is empty or has a wrong format."
HeaderMessage == "wrong table format: the first row must hold the columns rule type and rule content."
NoValidRuleMessage == "no valid rule data found in the file."
ParseFailedMessage == "file parsing failed, make sure the file is a valid .xlsx, .xls or .csv."
ReadFailedMessage == "file reading failed"

\* `successfully imported ${importedRules.length} rules`
ImportedMessage(n) ==
    CASE n = 1 -> "successfully imported 1 rules"
      [] n = 2 -> "successfully imported 2 rules"
      [] OTHER -> "successfully imported 3 rules"

\* String.prototype.trim, over the texts of the cells and inputs drawn below
Trim(v) ==
    CASE v = " " -> ""
      [] v = " rule type " -> "rule type"
      [] v = " A " -> "A"
      [] OTHER -> v

\* cell?.trim(): a number has no trim method and the call throws
TrimThrows(cell) == cell.t = "number"

\* cell?.trim() for a string or an undefined cell; "" stands for a falsy value
TrimCell(cell) == IF cell.t = "string" THEN Trim(cell.v) ELSE ""

\* row[k] of a JavaScript array: undefined beyond the end
Cell(row, k) == IF k <= Len(row) THEN row[k] ELSE Undef

\* a property that the object literal CATEGORY_REVERSE_MAP inherits from
\* Object.prototype
InheritedNames ==
    {"constructor", "toString", "toLocaleString", "valueOf", "hasOwnProperty",
     "isPrototypeOf", "propertyIsEnumerable", "__proto__", "__defineGetter__",
     "__defineSetter__", "__lookupGetter__", "__lookupSetter__"}

\* CATEGORY_REVERSE_MAP[typeCN] || 'special_rules': the lookup of an
\* inherited name yields the inherited value (a function, or the prototype
\* object), which is truthy and is no category
CategoryOf(typeCN) ==
    CASE typeCN = "text editing" -> "text_editing"
      [] typeCN = "workflow logic" -> "workflow_logic"
      [] typeCN = "result determination" -> "result_determination"
      [] typeCN = "special rules" -> "special_rules"
      [] typeCN = "constructor" -> "Object"
      [] typeCN = "toString" -> "Object.prototype.toString"
      [] typeCN = "valueOf" -> "Object.prototype.valueOf"
      [] typeCN = "hasOwnProperty" -> "Object.prototype.hasOwnProperty"
      [] typeCN = "__proto__" -> "Object.prototype"
      [] typeCN = "toLocaleString" -> "Object.prototype.toLocaleString"
      [] typeCN = "isPrototypeOf" -> "Object.prototype.isPrototypeOf"
      [] typeCN = "propertyIsEnumerable" -> "Object.prototype.propertyIsEnumerable"
      [] typeCN = "__defineGetter__" -> "Object.prototype.__defineGetter__"
      [] typeCN = "__defineSetter__" -> "Object.prototype.__defineSetter__"
      [] typeCN = "__lookupGetter__" -> "Object.prototype.__lookupGetter__"
      [] typeCN = "__lookupSetter__" -> "Object.prototype.__lookupSetter__"
      [] OTHER -> "special_rules"

Resolved(value) == [ok |-> TRUE, value |-> value, message |-> ""]

RejectedWith(message) == [ok |-> FALSE, value |-> <<>>, message |-> message]

\* the for loop of parseRulesFile from jsonData[i] on (jsonData[i] is
\* rows[i + 1]); clock[i] is what Date.now() returns while the loop is at
\* jsonData[i]; the result says whether a trim call threw
RECURSIVE ParseRows(_, _, _, _)
ParseRows(rows, i, clock, newRules) ==
    IF i >= Len(rows) THEN [threw |-> FALSE, newRules |-> newRules]
    ELSE LET row == rows[i + 1]
         IN IF Len(row) < 2 THEN ParseRows(rows, i + 1, clock, newRules)
            ELSE IF TrimThrows(Cell(row, 1)) \/ TrimThrows(Cell(row, 2))
                 THEN [threw |-> TRUE, newRules |-> newRules]
            ELSE IF TrimCell(Cell(row, 1)) # "" /\ TrimCell(Cell(row, 2)) # ""
                 THEN ParseRows(rows, i + 1, clock,
                        Append(newRules,
                               RuleConfig(RuleId("import", clock[i], i),
                                          TrimCell(Cell(row, 2)),
                                          CategoryOf(TrimCell(Cell(row, 1))), TRUE)))
            ELSE ParseRows(rows, i + 1, clock, newRules)

\* headers[0]?.trim() !== label || headers[1]?.trim() !== label, left to right
HeaderThrows(headers) ==
    \/ TrimThrows(Cell(headers, 1))
    \/ TrimCell(Cell(headers, 1)) = RuleTypeLabel /\ TrimThrows(Cell(headers, 2))

HeaderWrong(headers) ==
    \/ TrimCell(Cell(headers, 1)) # RuleTypeLabel
    \/ TrimCell(Cell(headers, 2)) # RuleContentLabel

\* parseRulesFile(file), with reader.onload run while Date.now() goes
\* through clock
ParseRulesFile(file, clock) ==
    IF ~file.readable THEN RejectedWith(ReadFailedMessage)
    ELSE IF Len(file.rows) < 2 THEN RejectedWith(EmptyFileMessage)
    ELSE IF HeaderThrows(file.rows[1]) THEN RejectedWith(ParseFailedMessage)
    ELSE IF HeaderWrong(file.rows[1]) THEN RejectedWith(HeaderMessage)
    ELSE LET parsed == ParseRows(file.rows, 1, clock, <<>>)
         IN IF parsed.threw THEN RejectedWith(ParseFailedMessage)
            ELSE IF Len(parsed.newRules) = 0 THEN RejectedWith(NoValidRuleMessage)
            ELSE Resolved(parsed.newRules)

\* addRule, with the input box holding input and the select holding category;
\* the handler belongs to the latest render, whose `rules` is the state
AddRule(input, category) ==
    /\ Trim(input) # ""
    /\ rules' = Append(rules, RuleConfig(RuleId("", now, 0), Trim(input), category, TRUE))
    /\ alertMsg' = ""
    /\ UNCHANGED <<docVars, call, batchRules, imports, now>>

\* setRules(prev => prev.filter(r => r.id !== id))
RemoveRule(id) ==
    /\ rules' = SelectSeq(rules, LAMBDA r : r.id # id)
    /\ alertMsg' = ""
    /\ UNCHANGED <<docVars, call, batchRules, imports, now>>

\* prev.map(r => r.id === id ? { ...r, enabled: !r.enabled } : r)
Toggle(rs, id) ==
    Map(rs, LAMBDA r : IF r.id = id THEN [r EXCEPT !.enabled = ~r.enabled] ELSE r)

ToggleRule(id) ==
    /\ rules' = Toggle(rules, id)
    /\ alertMsg' = ""
    /\ UNCHANGED <<docVars, call, batchRules, imports, now>>

\* handleRuleImport up to its await
ImportStart(file) ==
    /\ BagCardinality(imports) < MaxImports
    /\ imports' = imports (+) SetToBag({file})
    /\ alertMsg' = ""
    /\ UNCHANGED <<docVars, call, rules, batchRules, now>>

\* mutant: the rows read before the failure are kept
ImportedRulesKeepPartial(file, clock) ==
    IF ParseRulesFile(file, clock).ok THEN ParseRulesFile(file, clock).value
    ELSE IF file.readable /\ Len(file.rows) >= 2
         THEN ParseRows(file.rows, 1, clock, <<>>).newRules
    ELSE <<>>

\* what handleRuleImport appends: importedRules, or nothing when the await throws
ImportedRules(file, clock) ==
    IF ParseRulesFile(file, clock).ok THEN ParseRulesFile(file, clock).value ELSE <<>>

\* the readings of Date.now() over the n data rows of a file: the clock
\* starts at from and never goes back
Readings(from, n) ==
    {clock \in [1..n -> from..MaxClock] :
        \A k \in 1..(n - 1) : clock[k] <= clock[k + 1]}

\* the data rows of a file (jsonData[1] and on)
DataRows(file) == IF Len(file.rows) > 1 THEN Len(file.rows) - 1 ELSE 0

\* reader.onload / reader.onerror and the rest of handleRuleImport, with
\* Date.now() going through clock while the rows are read
ImportSettle(file, clock) ==
    /\ BagIn(file, imports)
    /\ imports' = imports (-) SetToBag({file})
    /\ rules' = rules \o ImportedRules(file, clock)
    /\ alertMsg' = IF ParseRulesFile(file, clock).ok
                   THEN ImportedMessage(Len(ParseRulesFile(file, clock).value))
                   ELSE ParseRulesFile(file, clock).message
    /\ now' = IF Len(clock) = 0 THEN now ELSE clock[Len(clock)]
    /\ UNCHANGED <<docVars, call, batchRules>>

\* time passes
Tick ==
    /\ now < MaxClock
    /\ now' = now + 1
    /\ alertMsg' = ""
    /\ UNCHANGED <<docVars, call, rules, batchRules, imports, ruleOps>>

(* Rule files *)

Header == <<Str("rule type"), Str("rule content")>>
PaddedHeader == <<Str(" rule type "), Str("rule content")>>
EnglishHeader == <<Str("type"), Str("content")>>
SwappedHeader == <<Str("rule content"), Str("rule type")>>

RowA == <<Str("text editing"), Str(" A ")>>
RowB == <<Str("audit"), Str("B")>>
ShortRow == <<Str("text editing")>>
BlankTypeRow == <<Str(" "), Str("A")>>
NoTextRow == <<Str("text editing"), Undef>>
NumberRow == <<Num, Str("A")>>
InheritedRow == <<Str("constructor"), Str("B")>>

Sheet(rows) == [readable |-> TRUE, rows |-> rows]

Unreadable == [readable |-> FALSE, rows |-> <<>>]

ValidRuleFiles ==
    {Sheet(<<Header, RowA>>), Sheet(<<Header, RowA, RowB>>),
     Sheet(<<PaddedHeader, RowB>>), Sheet(<<Header, ShortRow, RowB, NoTextRow>>),
     Sheet(<<Header, InheritedRow>>)}

InvalidRuleFiles ==
    {Unreadable, Sheet(<<>>), Sheet(<<Header>>),
     Sheet(<<EnglishHeader, RowA>>), Sheet(<<SwappedHeader, RowA, RowB>>),
     Sheet(<<Header, ShortRow, BlankTypeRow, NoTextRow>>),
     Sheet(<<Header, RowA, NumberRow>>)}

RuleFiles == ValidRuleFiles \cup InvalidRuleFiles

RuleInputs == {" A ", "B", " "}

RuleCategories == {"text_editing", "special_rules"}

\* the ids of the rules shown, and one id that no rule has
RuleIdsOffered == {rules[k].id : k \in 1..Len(rules)} \cup {RuleId("default", 0, 9)}

\* one more rule panel command
Command ==
    /\ ruleOps < MaxRuleOps
    /\ ruleOps' = ruleOps + 1

Add ==
    \E input \in RuleInputs : \E category \in RuleCategories :
        Command /\ AddRule(input, category)

RemoveARule == \E id \in RuleIdsOffered : Command /\ RemoveRule(id)

ToggleARule == \E id \in RuleIdsOffered : Command /\ ToggleRule(id)

Import == \E file \in RuleFiles : Command /\ ImportStart(file)

ImportDone ==
    \E file \in BagToSet(imports) : \E clock \in Readings(now, DataRows(file)) :
        ImportSettle(file, clock) /\ UNCHANGED ruleOps

NextRules ==
    \/ Add
    \/ RemoveARule
    \/ ToggleARule
    \/ Import
    \/ ImportDone
    \/ Tick

SpecRules == Init /\ [][NextRules]_vars

----------------------------------------------------------------------------
(* Batch runs while the rule panel is used: uploads of up to MaxAuditDocs   *)
(* files with distinct names, batch runs, and rules added, removed and      *)
(* switched on and off.                                                     *)

UploadAudit ==
    \E n \in 1..Min(MaxAuditDocs, Len(BatchNames)) :
        /\ nextId + n <= Min(MaxAuditDocs, Len(BatchNames)) + 1
        /\ \E ids \in RandomIds(n) :
            ProcessNewFiles(SubSeq(BatchNames, nextId, nextId + n - 1),
                            [k \in 1..n |-> TRUE], ids)

NextAudit ==
    \/ UploadAudit
    \/ RunBatchAudit
    \/ ExtractDone
    \/ ExtractFail
    \/ JudgeDone
    \/ Add
    \/ RemoveARule
    \/ ToggleARule

SpecAudit == Init /\ [][NextAudit]_vars

----------------------------------------------------------------------------
(* One batch run with no other user action: one drop of up to MaxRunDocs    *)
(* files, then the batch.  Every extraction succeeds; the judgment request  *)
(* that carries the content of c.docx is not answered in time and every     *)
(* other request is answered PASS, with a summary that names the content    *)
(* judged.                                                                  *)

RunOutcome(content) ==
    IF content = "<p>c</p>" THEN TimeoutRejection
    ELSE Response(200, AuditResult("PASS", content, <<>>))

UploadRun ==
    /\ nextId = 1
    /\ \E n \in 1..Min(MaxRunDocs, Len(BatchNames)) : \E ids \in RandomIds(n) :
        ProcessNewFiles(SubSeq(BatchNames, 1, n), [k \in 1..n |-> TRUE], ids)

JudgeRun == \E t \in BagToSet(workers) : JudgeResolve(t, RunOutcome(t.content))

NextRun ==
    \/ UploadRun
    \/ RunBatchAudit
    \/ ExtractDone
    \/ JudgeRun

SpecRun == Init /\ [][NextRun]_vars

----------------------------------------------------------------------------
(* analyzeReport taken alone: the fetch outcome is drawn at the start; the  *)
(* call waits for the fetch, then for the body, and returns its result.     *)

InitService ==
    /\ files = <<>>
    /\ isProcessingBatch = FALSE
    /\ expandedFiles = {}
    /\ queue = <<>>
    /\ workers = EmptyBag
    /\ filesToProcess = <<>>
    /\ dequeued = <<>>
    /\ previews = EmptyBag
    /\ nextId = 1
    /\ usedIds = {}
    /\ extractCalls = [i \in DocIds |-> 0]
    /\ call \in {[state |-> "pending", outcome |-> o] : o \in FetchOutcomes}
    /\ rules = DefaultRules
    /\ batchRules = DefaultRules
    /\ imports = EmptyBag
    /\ now = 0
    /\ alertMsg = ""
    /\ ruleOps = 0

\* the fetch settles: a rejection or a response that is not ok goes to the
\* catch block and analyzeReport returns; otherwise analyzeReport waits for
\* the body (await response.json())
FetchSettles ==
    /\ call.state = "pending"
    /\ call' = IF ThrowsAtOnce(call.outcome)
               THEN [state |-> "returned", outcome |-> call.outcome,
                     result |-> analyzeReport(call.outcome)]
               ELSE [state |-> "reading", outcome |-> call.outcome]
    /\ UNCHANGED <<docVars, ruleVars>>

\* the body has arrived: response.json() resolves or throws, and
\* analyzeReport returns
BodyRead ==
    /\ call.state = "reading"
    /\ call' = [state |-> "returned", outcome |-> call.outcome,
                result |-> analyzeReport(call.outcome)]
    /\ UNCHANGED <<docVars, ruleVars>>

\* the 30 s of AbortSignal.timeout run out before the body has arrived
BodyTimesOut ==
    /\ call.state = "reading"
    /\ LET cut == Response(call.outcome.status, AbortedBody)
       IN call' = [state |-> "returned", outcome |-> cut, result |-> analyzeReport(cut)]
    /\ UNCHANGED <<docVars, ruleVars>>

NextService ==
    \/ FetchSettles
    \/ BodyRead
    \/ BodyTimesOut

SpecService == InitService /\ [][NextService]_vars

----------------------------------------------------------------------------
(* The judgment path from the model service to the verdict: the handler of  *)
(* api/analyze-report.ts and analyzeReport.  What the handler meets is      *)
(* drawn at the start: whether the API key is configured, and the reply of  *)
(* the model service (a network error, or a response with ok or not and a   *)
(* message content).  An optional value is <<>> when missing and <<v>> when *)
(* present.                                                                 *)

None == <<>>
Some(v) == <<v>>

NoSummaryText == "no audit summary generated"
NoApiKeyMessage == "API key not configured"
UpstreamErrorMessage == "model service returned an error"
NoContentMessage == "model service returned no valid audit result"
JsonParseMessage == "Unexpected token in JSON"
NullResultMessage == "Cannot read properties of null"
UpstreamNetworkMessage == "fetch failed"

\* `audit failed: ${error.message}`
AuditFailedSummary(message) ==
    CASE message = NoApiKeyMessage -> "audit failed: API key not configured"
      [] message = UpstreamErrorMessage -> "audit failed: model service returned an error"
      [] message = NoContentMessage -> "audit failed: model service returned no valid audit result"
      [] message = JsonParseMessage -> "audit failed: Unexpected token in JSON"
      [] message = NullResultMessage -> "audit failed: Cannot read properties of null"
      [] OTHER -> "audit failed: fetch failed"

\* the message content of the model service: nothing, text that is not JSON,
\* the JSON null, a JSON number, or a JSON object
NoContent == [kind |-> "none", overallStatus |-> None, summary |-> None, issues |-> None]
NotJson == [kind |-> "text", overallStatus |-> None, summary |-> None, issues |-> None]
JsonNull == [kind |-> "null", overallStatus |-> None, summary |-> None, issues |-> None]
JsonNumber == [kind |-> "number", overallStatus |-> None, summary |-> None, issues |-> None]

JsonObject(overallStatus, summary, issues) ==
    [kind |-> "object", overallStatus |-> overallStatus, summary |-> summary,
     issues |-> issues]

\* the catch block of the handler: res.status(500).json({...})
HandlerCatch(message) ==
    Response(500, AuditResult("ERROR", AuditFailedSummary(message),
                              <<Issue("special_rules", "AI audit service error",
                                      message, "high")>>))

\* overallStatus === 'FAIL' ? 'FAIL' : (overallStatus === 'WARNING' ? 'WARNING' : 'PASS')
CoerceStatus(overallStatus) ==
    IF overallStatus = Some("FAIL") THEN "FAIL"
    ELSE IF overallStatus = Some("WARNING") THEN "WARNING"
    ELSE "PASS"

\* res.status(200).json({ status, summary: summary || default, issues: issues || [] })
HandlerOk(auditResult) ==
    Response(200,
        AuditResult(CoerceStatus(auditResult.overallStatus),
                    IF auditResult.summary = None \/ auditResult.summary = Some("")
                    THEN NoSummaryText ELSE auditResult.summary[1],
                    IF auditResult.issues = None THEN <<>> ELSE auditResult.issues[1]))

\* handler(req, res) for a POST request
Handler(upstream) ==
    IF ~upstream.apiKey THEN HandlerCatch(NoApiKeyMessage)
    ELSE IF upstream.reply.kind = "reject" THEN HandlerCatch(upstream.reply.message)
    ELSE IF ~upstream.reply.ok THEN HandlerCatch(UpstreamErrorMessage)
    ELSE IF upstream.reply.content.kind = "none" THEN HandlerCatch(NoContentMessage)
    ELSE IF upstream.reply.content.kind = "text" THEN HandlerCatch(JsonParseMessage)
    ELSE IF upstream.reply.content.kind = "null" THEN HandlerCatch(NullResultMessage)
    ELSE HandlerOk(upstream.reply.content)

UpstreamStatuses ==
    {None, Some("PASS"), Some("FAIL"), Some("WARNING"), Some("ERROR"),
     Some("pass"), Some("UNKNOWN"), Some("")}

UpstreamSummaries == {None, Some(""), Some("2 problems")}

UpstreamIssues == {None, Some(<<>>), Some(<<ServerIssue>>)}

Contents ==
    {NoContent, NotJson, JsonNull, JsonNumber}
        \cup {JsonObject(st, su, is) :
                st \in UpstreamStatuses, su \in UpstreamSummaries, is \in UpstreamIssues}

Replies ==
    {[kind |-> "reject", message |-> UpstreamNetworkMessage, ok |-> FALSE,
      content |-> NoContent]}
        \cup {[kind |-> "response", message |-> "", ok |-> ok, content |-> c] :
                ok \in BOOLEAN, c \in Contents}

Upstreams == {[apiKey |-> k, reply |-> r] : k \in BOOLEAN, r \in Replies}

InitJudgment ==
    /\ files = <<>>
    /\ isProcessingBatch = FALSE
    /\ expandedFiles = {}
    /\ queue = <<>>
    /\ workers = EmptyBag
    /\ filesToProcess = <<>>
    /\ dequeued = <<>>
    /\ previews = EmptyBag
    /\ nextId = 1
    /\ usedIds = {}
    /\ extractCalls = [i \in DocIds |-> 0]
    /\ rules = DefaultRules
    /\ batchRules = DefaultRules
    /\ imports = EmptyBag
    /\ now = 0
    /\ alertMsg = ""
    /\ ruleOps = 0
    /\ call \in {[state |-> "sent", upstream |-> u, outcome |-> TimeoutRejection,
                   result |-> NoResult] : u \in Upstreams}

\* the fetch of analyzeReport settles with the handler's answer o: an answer
\* that is not ok goes to the catch block and analyzeReport returns;
\* otherwise analyzeReport waits for the body
Answered(o) ==
    IF ThrowsAtOnce(o)
    THEN [call EXCEPT !.state = "returned", !.outcome = o, !.result = analyzeReport(o)]
    ELSE [call EXCEPT !.state = "reading", !.outcome = o]

\* the handler runs to its first await: without an API key it answers from
\* its catch block (res.status(500).json), otherwise it calls the model
\* service and waits.  In state "answered" the handler has sent its answer,
\* Handler(call.upstream), and analyzeReport still waits at await fetch
HandlerStart ==
    /\ call.state = "sent"
    /\ call' = IF ~call.upstream.apiKey
               THEN [call EXCEPT !.state = "answered"]
               ELSE [call EXCEPT !.state = "upstream"]
    /\ UNCHANGED <<docVars, ruleVars>>

\* the fetch to the model service settles: on a rejection the handler
\* answers from its catch block, otherwise it waits for the reply's body
UpstreamSettles ==
    /\ call.state = "upstream"
    /\ call' = IF call.upstream.reply.kind = "reject"
               THEN [call EXCEPT !.state = "answered"]
               ELSE [call EXCEPT !.state = "upstream body"]
    /\ UNCHANGED <<docVars, ruleVars>>

\* the reply's body has arrived and the handler answers the request
HandlerRespond ==
    /\ call.state = "upstream body"
    /\ call' = [call EXCEPT !.state = "answered"]
    /\ UNCHANGED <<docVars, ruleVars>>

\* the handler's answer reaches the browser: await fetch resolves and
\* analyzeReport runs to await response.json(), or to its return when the
\* answer is not ok
FetchResolves ==
    /\ call.state = "answered"
    /\ call' = Answered(Handler(call.upstream))
    /\ UNCHANGED <<docVars, ruleVars>>

\* the 30 s of AbortSignal.timeout run out: while analyzeReport waits at
\* await fetch (the handler's answer on its way or not) the fetch rejects,
\* after it the reading of the body does; analyzeReport returns from its
\* catch block
RequestTimesOut ==
    /\ call.state \in {"sent", "upstream", "upstream body", "answered", "reading"}
    /\ LET o == IF call.state = "reading"
                THEN Response(call.outcome.status, AbortedBody)
                ELSE TimeoutRejection
       IN call' = [call EXCEPT !.state = "returned", !.outcome = o,
                               !.result = analyzeReport(o)]
    /\ UNCHANGED <<docVars, ruleVars>>

\* the body of the answer has arrived: analyzeReport returns
AnalyzeReportReturn ==
    /\ call.state = "reading"
    /\ call' = [call EXCEPT !.state = "returned", !.result = analyzeReport(call.outcome)]
    /\ UNCHANGED <<docVars, ruleVars>>

NextJudgment ==
    \/ HandlerStart
    \/ UpstreamSettles
    \/ HandlerRespond
    \/ FetchResolves
    \/ RequestTimesOut
    \/ AnalyzeReportReturn

SpecJudgment == InitJudgment /\ [][NextJudgment]_vars

----------------------------------------------------------------------------
(* CSV export: the escape function of exportToCSV, taken alone.  A text is  *)
(* a sequence of characters; the text to emit is drawn at the start and the *)
(* call returns the field written to the file.                              *)

Quote == "\""
Comma == ","
Newline == "\n"

\* stringText.includes(c)
Includes(text, c) == \E k \in 1..Len(text) : text[k] = c

\* stringText.replace(/"/g, '""')
RECURSIVE DoubleQuotes(_)
DoubleQuotes(text) ==
    IF text = <<>> THEN <<>>
    ELSE (IF Head(text) = Quote THEN <<Quote, Quote>> ELSE <<Head(text)>>)
            \o DoubleQuotes(Tail(text))

\* mutant: the field is wrapped and its quotes are left single
EscapeNoDoubling(text) ==
    IF text = <<>> THEN <<>>
    ELSE IF Includes(text, Comma) \/ Includes(text, Quote) \/ Includes(text, Newline)
         THEN <<Quote>> \o text \o <<Quote>>
    ELSE text

\* exportToCSV: const escape = (text) => ...
Escape(text) ==
    IF text = <<>> THEN <<>>
    ELSE IF Includes(text, Comma) \/ Includes(text, Quote) \/ Includes(text, Newline)
         THEN <<Quote>> \o DoubleQuotes(text) \o <<Quote>>
    ELSE text

Chars == {"a", " ", Comma, Quote, Newline}

RECURSIVE Texts(_)
Texts(n) ==
    IF n = 0 THEN {<<>>}
    ELSE Texts(n - 1) \cup {Append(t, c) : t \in Texts(n - 1), c \in Chars}

\* He said, "ok"
HeSaid == <<"H", "e", " ", "s", "a", "i", "d", Comma, " ", Quote, "o", "k", Quote>>

FieldTexts == Texts(MaxFieldLen) \cup {HeSaid}

InitExport ==
    /\ files = <<>>
    /\ isProcessingBatch = FALSE
    /\ expandedFiles = {}
    /\ queue = <<>>
    /\ workers = EmptyBag
    /\ filesToProcess = <<>>
    /\ dequeued = <<>>
    /\ previews = EmptyBag
    /\ nextId = 1
    /\ usedIds = {}
    /\ extractCalls = [i \in DocIds |-> 0]
    /\ rules = DefaultRules
    /\ batchRules = DefaultRules
    /\ imports = EmptyBag
    /\ now = 0
    /\ alertMsg = ""
    /\ ruleOps = 0
    /\ call \in {[state |-> "escape", text |-> text, field |-> <<>>] : text \in FieldTexts}

EscapeCall ==
    /\ call.state = "escape"
    /\ call' = [call EXCEPT !.state = "escaped", !.field = Escape(call.text)]
    /\ UNCHANGED <<docVars, ruleVars>>

NextExport == EscapeCall

SpecExport == InitExport /\ [][NextExport]_vars

----------------------------------------------------------------------------
(* Vocabulary of the properties *)

FileById(fs, id) == fs[CHOOSE i \in 1..Len(fs) : fs[i].id = id]

TaskIds(b) == {t.file.id : t \in BagToSet(b)}

RECURSIVE SumCopies(_, _)
SumCopies(S, b) ==
    IF S = {} THEN 0
    ELSE LET t == CHOOSE x \in S : TRUE
         IN CopiesIn(t, b) + SumCopies(S \ {t}, b)

\* calls of analyzeReport in flight
Judging == SumCopies({t \in BagToSet(workers) : t.stage = "judge"}, workers)

UnprocessedIds == {files[i].id : i \in {j \in 1..Len(files) : files[j].auditResult = NoResult}}

\* Math.random has handed out a new id for every DocFile created so far
NoIdTwice == Cardinality(usedIds) = nextId - 1

BatchStarts == ~isProcessingBatch /\ isProcessingBatch'

BatchCompletes == isProcessingBatch /\ ~isProcessingBatch'

\* calls of processFile in flight for documents of one id
InFlight(b, id) == SumCopies({t \in BagToSet(b) : t.file.id = id}, b)

\* documents of one id taken from the queue so far
Taken(s, id) == Cardinality({k \in 1..Len(s) : s[k] = id})

\* the extraction that t awaits has resolved in this step, and processFile
\* has gone on to its judgment call
WentOn(t) ==
    /\ t.stage = "extract"
    /\ \E u \in BagToSet(workers') :
        /\ u.stage = "judge"
        /\ u.file = t.file
        /\ CopiesIn(u, workers') > CopiesIn(u, workers)

\* the worker awaiting t has come back from processFile in this step
Returned(t) ==
    /\ BagIn(t, workers)
    /\ CopiesIn(t, workers') < CopiesIn(t, workers)
    /\ ~WentOn(t)

----------------------------------------------------------------------------
(* C1: during a batch run at most CONCURRENT_LIMIT calls of analyzeReport   *)
(* are in flight, and a batch that starts over N unprocessed documents      *)
(* spawns min(N, CONCURRENT_LIMIT) workers.                                 *)
C1_ConcurrencyCap ==
    [][/\ Judging' <= CONCURRENT_LIMIT
       /\ BatchStarts =>
            BagCardinality(workers') = Min(Len(Unprocessed(files)), CONCURRENT_LIMIT)]_vars

C1_Witness == Judging = CONCURRENT_LIMIT /\ Len(queue) > 0

(* C2: every document without a verdict at batch start, and still in the    *)
(* registry, has a verdict at the step that completes the batch (in a run   *)
(* in which Math.random has handed out no id twice, so that an id names one *)
(* document).                                                               *)
C2_Totality ==
    [][(NoIdTwice /\ BatchCompletes) =>
        \A k \in 1..Len(filesToProcess) :
            filesToProcess[k] \in Ids(files') =>
                HasResult(FileById(files', filesToProcess[k]))]_vars

(* C3: in a batch run every document of the snapshot is taken from the      *)
(* queue exactly once, a document being its place in the snapshot: the      *)
(* documents taken so far, followed by the documents still queued, are the  *)
(* snapshot in its order; a step that takes documents takes that many from  *)
(* the head of the queue; the workers hold no more documents of an id than  *)
(* were taken; and the queue is empty when the last worker returns.         *)
C3_ExactlyOnce ==
    [][/\ isProcessingBatch' =>
            /\ dequeued' \o Map(queue', LAMBDA f : f.id) = filesToProcess'
            /\ BagCardinality(workers') <= Len(dequeued')
            /\ \A id \in TaskIds(workers') : InFlight(workers', id) <= Taken(dequeued', id)
       /\ (isProcessingBatch /\ isProcessingBatch') =>
            /\ Len(queue) - Len(queue') = Len(dequeued') - Len(dequeued)
            /\ BagCardinality(workers') <= BagCardinality(workers)
       /\ BatchCompletes => queue = <<>> /\ dequeued = filesToProcess]_vars

C3_Witness ==
    /\ isProcessingBatch
    /\ Len(dequeued) > CONCURRENT_LIMIT
    /\ BagCardinality(workers) > 1

(* C4: at most one extraction or judgment is in flight for a document, a    *)
(* document being its place in the snapshot of the running batch: the       *)
(* workers hold no more documents of an id than were taken from the queue,  *)
(* the documents taken and the documents queued are the snapshot, each      *)
(* once, and no call is in flight when no batch runs.                       *)
C4_OneInFlightPerDocument ==
    /\ \A id \in TaskIds(workers) : InFlight(workers, id) <= Taken(dequeued, id)
    /\ BagCardinality(workers) <= Len(dequeued)
    /\ isProcessingBatch => dequeued \o Map(queue, LAMBDA f : f.id) = filesToProcess
    /\ ~isProcessingBatch => workers = EmptyBag /\ queue = <<>>

\* a batch is running and a document without a verdict, uploaded after its
\* start, waits in the registry
C4_Witness ==
    /\ isProcessingBatch
    /\ Judging > 0
    /\ \E i \in 1..Len(files) :
        /\ ~HasResult(files[i])
        /\ files[i].id \notin Range(filesToProcess)

(* C5: a step in which a worker's document ends with an ERROR verdict       *)
(* leaves every other worker in flight and every other document of the      *)
(* list unchanged (the step changes one document at most),                  *)
(* and that worker takes the next queued document; every worker that comes  *)
(* back writes a verdict for its document, and the batch ends only with an  *)
(* empty queue and no worker left.                                          *)
FailedStep(t) ==
    /\ Returned(t)
    /\ t.file.id \in Ids(files')
    /\ FileById(files', t.file.id).auditResult.status = "ERROR"

C5_FailureIsolation ==
    [][/\ \A t \in BagToSet(workers) : FailedStep(t) =>
            /\ \A u \in BagToSet(workers) \ {t} : BagIn(u, workers')
            /\ Len(files') = Len(files)
            /\ Cardinality({i \in 1..Len(files) : files'[i] # files[i]}) <= 1
            /\ IF Len(queue) > 0
               THEN /\ queue' = Tail(queue)
                    /\ Head(queue).id \in TaskIds(workers')
                    /\ isProcessingBatch'
               ELSE isProcessingBatch' = (workers' # EmptyBag)
       /\ \A t \in BagToSet(workers) :
            (Returned(t) /\ t.file.id \in Ids(files')) =>
                /\ HasResult(FileById(files', t.file.id))
                /\ ~FileById(files', t.file.id).isProcessing
       /\ BatchCompletes => queue = <<>> /\ workers' = EmptyBag]_vars

(* C6: a call of analyzeReport whose fetch rejects (network error,          *)
(* timeout), whose response is not 2xx or whose body is not JSON returns a  *)
(* verdict of status ERROR with exactly one issue, of category              *)
(* special_rules and severity high.                                         *)
IsFailure(o) ==
    IF o.kind = "reject" THEN TRUE
    ELSE o.status < 200 \/ o.status > 299 \/ o.body \in {MalformedBody, AbortedBody}

C6_ServiceErrorVerdict ==
    (call.state = "returned" /\ IsFailure(call.outcome)) =>
        /\ call.result.status = "ERROR"
        /\ Len(call.result.issues) = 1
        /\ call.result.issues[1].category = "special_rules"
        /\ call.result.issues[1].severity = "high"

C6_Witness ==
    /\ call.state = "returned"
    /\ call.outcome = Response(200, MalformedBody)
    /\ call.result.status = "ERROR"

(* C7, as stated: the verdict written when extraction fails in a batch has  *)
(* status ERROR, a summary and exactly one issue, of category special_rules *)
(* and severity high.                                                       *)
ExtractFailed(t) ==
    /\ Returned(t)
    /\ t.stage = "extract"
    /\ t.file.id \in Ids(files')

C7_ExtractionErrorHasOneIssue ==
    [][\A t \in BagToSet(workers) : ExtractFailed(t) =>
        LET r == FileById(files', t.file.id).auditResult
        IN /\ r.status = "ERROR"
           /\ r.summary # ""
           /\ Len(r.issues) = 1
           /\ r.issues[1].category = "special_rules"
           /\ r.issues[1].severity = "high"]_vars

(* C7, amended: the verdict written when extraction fails in a batch has    *)
(* status ERROR, the summary "file processing failed." and no issue; the    *)
(* document is written back with processing off and its content still       *)
(* absent.                                                                  *)
C7_ExtractionErrorVerdict ==
    [][\A t \in BagToSet(workers) : ExtractFailed(t) =>
        LET f == FileById(files', t.file.id)
        IN /\ f.auditResult.status = "ERROR"
           /\ f.auditResult.summary = ProcessFileFailedSummary
           /\ f.auditResult.issues = <<>>
           /\ ~f.isProcessing
           /\ f.content = ""]_vars

C7_Witness ==
    \E i \in 1..Len(files) :
        /\ HasResult(files[i])
        /\ files[i].auditResult.summary = ProcessFileFailedSummary

(* C8: extractContentFromDocx is called at most once for a document, over   *)
(* batch runs and previews (in a run in which Math.random has handed out no *)
(* id twice, so that an id names one document).                             *)
C8_ExtractAtMostOnce == NoIdTwice => \A id \in DocIds : extractCalls[id] <= 1

(* C9: when a worker comes back with the result for a document that has     *)
(* been removed from the registry (no document of the list is of its file), *)
(* the document list is left as it is.                                      *)
C9_RemovedCompletionNoOp ==
    [][\A t \in BagToSet(workers) :
        (Returned(t) /\ ~NameExists(t.file.file.name)) => files' = files]_vars

(* C10: a batch run takes up exactly the documents without a verdict at its *)
(* start and leaves the others as they are; no document that has a verdict  *)
(* (an ERROR verdict included) is queued, held by a worker or marked.       *)
C10_OnlyUnprocessedTakenUp ==
    [][/\ \A t \in BagToSet(workers') : ~HasResult(t.file)
       /\ \A k \in 1..Len(queue') : ~HasResult(queue'[k])
       /\ isProcessingBatch' =>
            TaskIds(workers') \cup Ids(queue') \subseteq Range(filesToProcess')
       /\ BatchStarts =>
            /\ Range(filesToProcess') = UnprocessedIds
            /\ TaskIds(workers') \cup Ids(queue') = UnprocessedIds
            /\ Len(files') = Len(files)
            /\ \A i \in 1..Len(files) :
                IF HasResult(files[i]) THEN files'[i] = files[i]
                ELSE files'[i] = [files[i] EXCEPT !.isProcessing = TRUE]]_vars

(* C11: when a batch run with no other user action completes, every         *)
(* document of the start snapshot is in the registry with processing off,   *)
(* its own content and the verdict of the judgment call that carried that   *)
(* content; with 5 documents, one of whose calls times out while the others *)
(* return PASS, the result is 4 PASS and 1 ERROR with one issue.            *)
StatusCount(fs, status) ==
    Cardinality({i \in 1..Len(fs) : fs[i].auditResult.status = status})

C11_OwnVerdictAtCompletion ==
    [][BatchCompletes =>
        /\ Range(filesToProcess) = Ids(files')
        /\ \A i \in 1..Len(files') :
            /\ ~files'[i].isProcessing
            /\ files'[i].content = Html(files'[i].file)
            /\ files'[i].auditResult = analyzeReport(RunOutcome(Html(files'[i].file)))
        /\ Len(filesToProcess) = 5 =>
            /\ StatusCount(files', "PASS") = 4
            /\ StatusCount(files', "ERROR") = 1
            /\ \A i \in 1..Len(files') :
                files'[i].auditResult.status = "ERROR" =>
                    Len(files'[i].auditResult.issues) = 1]_vars

(* C12: the rule list of a judgment request is the texts of the enabled     *)
(* rules of the rule list that the running batch reads, in the order of     *)
(* that list, with the disabled rules left out.                             *)
RECURSIVE EnabledTexts(_)
EnabledTexts(rs) ==
    IF rs = <<>> THEN <<>>
    ELSE IF Head(rs).enabled THEN <<Head(rs).text>> \o EnabledTexts(Tail(rs))
    ELSE EnabledTexts(Tail(rs))

\* the judgment request of t is issued in this step
Requested(t) == CopiesIn(t, workers') > CopiesIn(t, workers) /\ t.stage = "judge"

C12_ActiveRuleTexts ==
    [][\A t \in BagToSet(workers') : Requested(t) =>
        /\ t.rules = EnabledTexts(batchRules')
        /\ \A k \in 1..Len(t.rules) :
            \E j \in 1..Len(batchRules') :
                batchRules'[j].enabled /\ batchRules'[j].text = t.rules[k]]_vars

\* a request in flight for a rule list with a disabled rule between two
\* enabled ones
C12_Witness ==
    \E t \in BagToSet(workers) :
        /\ t.stage = "judge"
        /\ Len(t.rules) >= 2
        /\ \E k \in 2..(Len(batchRules) - 1) :
            /\ ~batchRules[k].enabled
            /\ batchRules[k - 1].enabled
            /\ batchRules[k + 1].enabled
            /\ batchRules[k].text \notin Range(t.rules)

(* C13: a document's outcome is written in the very step in which its own   *)
(* call comes back, whatever the other documents of the batch are doing:    *)
(* the return of a pending judgment call is never held back by another      *)
(* document, the step shows the verdict with processing off, and it leaves  *)
(* the other workers waiting and the queued documents (but the next one,    *)
(* which the worker takes) queued.                                          *)
C13_OutcomeVisibleAtOnce ==
    [][/\ \A t \in BagToSet(workers) :
            t.stage = "judge" =>
                \A outcome \in BatchOutcomes : ENABLED JudgeResolve(t, outcome)
       /\ \A t \in BagToSet(workers) :
            (Returned(t) /\ t.file.id \in Ids(files)) =>
                /\ HasResult(FileById(files', t.file.id))
                /\ ~FileById(files', t.file.id).isProcessing
                /\ \A u \in BagToSet(workers) \ {t} : BagIn(u, workers')
                /\ queue' = IF Len(queue) > 0 THEN Tail(queue) ELSE queue]_vars

\* a finished document of the running batch shows its verdict while
\* CONCURRENT_LIMIT others are in flight, one of them taken from the queue
C13_Witness ==
    /\ isProcessingBatch
    /\ Len(dequeued) > CONCURRENT_LIMIT
    /\ BagCardinality(workers) = CONCURRENT_LIMIT
    /\ \E i \in 1..Len(files) :
        /\ files[i].id \in Range(filesToProcess)
        /\ HasResult(files[i])
        /\ ~files[i].isProcessing

(* C14: in an upload, for a file whose name is that of a registered         *)
(* document: if the overwrite is confirmed, the old document is gone and    *)
(* the documents of that name are new ones, with an id that no document of *)
(* the list and no call in flight bears,                                    *)
(* processing off, no content and no verdict; if it is declined, the        *)
(* documents of that name are the ones there were, unchanged, and none is   *)
(* inserted.  (An upload in which every file is declined changes nothing;  *)
(* the uploads that take a file are the steps that use up ids.)             *)
Fresh(g) ==
    /\ g.id \notin Ids(files)
    /\ g.id \notin TaskIds(workers)
    /\ g.id \notin {f.id : f \in BagToSet(previews)}
    /\ g = DocFile(g.id, g.file.name)

Answers(fileList, confirm, name) ==
    {confirm[j] : j \in {k \in 1..Len(fileList) : fileList[k] = name}}

Named(fs, name) == {g \in Range(fs) : g.file.name = name}

C14_OverwriteOrDecline ==
    [][nextId' > nextId =>
        \A fileList \in FileLists : \A confirm \in Confirms(fileList) :
          \A ids \in RandomIds(NumTaken(fileList, confirm)) :
            ProcessNewFiles(fileList, confirm, ids) =>
                \A k \in 1..Len(fileList) :
                    LET name == fileList[k]
                    IN NameExists(name) =>
                        IF TRUE \in Answers(fileList, confirm, name)
                        THEN /\ files[FindIndex(name)].id \notin Ids(files')
                             /\ Named(files', name) # {}
                             /\ \A g \in Named(files', name) : Fresh(g)
                        ELSE SelectSeq(files', LAMBDA g : g.file.name = name)
                                = SelectSeq(files, LAMBDA g : g.file.name = name)]_vars

(* C15: no two documents of the registry have the same name: the files of   *)
(* one upload or drop that share a name leave one document of that name.    *)
C15_OneDocumentPerName ==
    \A i, j \in 1..Len(files) : files[i].file.name = files[j].file.name => i = j

(* C16: the status of every verdict that comes out of the judgment path is  *)
(* PASS, FAIL, WARNING or ERROR, and a status of the model service that is  *)
(* missing or is none of these four does not come out as PASS.              *)
AuditStatuses == {"PASS", "FAIL", "WARNING", "ERROR"}

Recognized(overallStatus) ==
    overallStatus # None /\ overallStatus[1] \in AuditStatuses

C16_StatusCoercion ==
    call.state = "returned" =>
        /\ call.result.status \in AuditStatuses
        /\ ~Recognized(call.upstream.reply.content.overallStatus) =>
                call.result.status # "PASS"

(* C17: a judgment call that hits its timeout returns the verdict of the    *)
(* timeout branch of analyzeReport: status ERROR with the timeout message,  *)
(* which no other failure yields.  The timeout is hit while the fetch waits  *)
(* for the response or while the body of the response is read.              *)
TimedOut(o) ==
    o = TimeoutRejection \/ (o.kind = "response" /\ o.body = AbortedBody)

C17_TimeoutBranch ==
    call.state = "returned" =>
        /\ TimedOut(call.outcome) =>
                /\ call.result.status = "ERROR"
                /\ call.result.summary = TimeoutErrorMessage
        /\ (IsFailure(call.outcome) /\ ~TimedOut(call.outcome)) =>
                call.result # analyzeReport(TimeoutRejection)

(* C18: when the reading of a rule file ends and the file fails validation  *)
(* (it is unreadable, has fewer than 2 rows, its first row does not start   *)
(* with the two required labels, it has no data row with a type and a text, *)
(* or a cell read is not text), the rule list is left as it is and an       *)
(* error message is shown.                                                  *)
IsText(cell, text) == cell.t = "string" /\ Trim(cell.v) = text

IsFilled(cell) == cell.t = "string" /\ Trim(cell.v) # ""

ValidDataRow(row) == Len(row) >= 2 /\ IsFilled(row[1]) /\ IsFilled(row[2])

UnreadableRow(row) == Len(row) >= 2 /\ (row[1].t = "number" \/ row[2].t = "number")

PassesValidation(file) ==
    /\ file.readable
    /\ Len(file.rows) >= 2
    /\ Len(file.rows[1]) >= 2
    /\ IsText(file.rows[1][1], RuleTypeLabel)
    /\ IsText(file.rows[1][2], RuleContentLabel)
    /\ \E k \in 2..Len(file.rows) : ValidDataRow(file.rows[k])
    /\ \A k \in 2..Len(file.rows) : ~UnreadableRow(file.rows[k])

ImportErrors ==
    {EmptyFileMessage, HeaderMessage, NoValidRuleMessage, ParseFailedMessage,
     ReadFailedMessage}

\* the reading of file ends in this step
Settled(file) == BagIn(file, imports) /\ imports' = imports (-) SetToBag({file})

C18_InvalidImportRejected ==
    [][\A file \in BagToSet(imports) :
        (Settled(file) /\ ~PassesValidation(file)) =>
            /\ rules' = rules
            /\ alertMsg' \in ImportErrors]_vars

\* a file with the header ["type", "content"] has just been refused, the
\* rule list being other than the default one
C18_Witness ==
    /\ alertMsg = HeaderMessage
    /\ imports = EmptyBag
    /\ rules # DefaultRules

(* C19: no two rules of the rule list have the same id.                     *)
C19_UniqueRuleIds ==
    \A i, j \in 1..Len(rules) : rules[i].id = rules[j].id => i = j

(* C20: a step that changes nothing in the rule list but enabled flags (a   *)
(* toggle) changes the flag of exactly one rule, and does so only for an id *)
(* that the list holds.                                                     *)
SameButFlags(rs, qs) ==
    /\ Len(rs) = Len(qs)
    /\ \A k \in 1..Len(rs) :
        /\ rs[k].id = qs[k].id
        /\ rs[k].text = qs[k].text
        /\ rs[k].category = qs[k].category

C20_ToggleOneRule ==
    [][(SameButFlags(rules, rules') /\ rules' # rules) =>
        Cardinality({k \in 1..Len(rules) : rules'[k].enabled # rules[k].enabled}) = 1]_vars

(* C21: escape emits a text that holds a comma, a double quote or a newline *)
(* between two double quotes, with every double quote of the text doubled   *)
(* (so that a CSV reader gets the text back), and emits any other text      *)
(* unchanged; He said, "ok" is emitted as "He said, ""ok""".                *)
NeedsQuoting(text) == \E k \in 1..Len(text) : text[k] \in {Comma, Quote, Newline}

QuoteCount(text) == Cardinality({k \in 1..Len(text) : text[k] = Quote})

\* a CSV reader on the inside of a quoted field: two quotes read as one, and
\* a single quote is not allowed
RECURSIVE ReadQuoted(_)
ReadQuoted(inner) ==
    IF inner = <<>> THEN <<>>
    ELSE IF Head(inner) # Quote THEN <<Head(inner)>> \o ReadQuoted(Tail(inner))
    ELSE IF Len(inner) >= 2 /\ inner[2] = Quote
         THEN <<Quote>> \o ReadQuoted(Tail(Tail(inner)))
    ELSE <<"unreadable">>

\* "He said, ""ok"""
HeSaidField ==
    <<Quote, "H", "e", " ", "s", "a", "i", "d", Comma, " ",
      Quote, Quote, "o", "k", Quote, Quote, Quote>>

C21_CsvEscaping ==
    call.state = "escaped" =>
        /\ IF NeedsQuoting(call.text)
           THEN /\ Len(call.field) = Len(call.text) + QuoteCount(call.text) + 2
                /\ Head(call.field) = Quote
                /\ call.field[Len(call.field)] = Quote
                /\ ReadQuoted(SubSeq(call.field, 2, Len(call.field) - 1)) = call.text
           ELSE call.field = call.text
        /\ call.text = HeSaid => call.field = HeSaidField

C21_Witness ==
    /\ call.state = "escaped"
    /\ call.text = HeSaid
    /\ call.field = HeSaidField

(* C22: the rule list of a judgment request issued when a document's        *)
(* extraction completes is the texts of the rules enabled in the rule list  *)
(* as it is at that step, rules switched, added or removed since the batch  *)
(* started included.                                                        *)
C22_RulesAtExtractionCompletion ==
    [][\A t \in BagToSet(workers) :
        (t.stage = "extract" /\ ExtractResolve(t)) =>
            \A u \in BagToSet(workers') :
                Requested(u) => u.rules = EnabledTexts(rules)]_vars

(* C23: the step that starts a batch marks every document without a        *)
(* verdict, and no other, as processing; a document with a verdict is left  *)
(* as it is.  After that step every call of the batch is still pending:     *)
(* each worker waits at the first await of processFile for a marked         *)
(* document, and no document has got a verdict.                             *)
AtFirstAwait(t) ==
    /\ t.file \in Range(files')
    /\ t.file.isProcessing
    /\ ~HasResult(t.file)
    /\ t.stage = (IF t.file.content = "" THEN "extract" ELSE "judge")
    /\ t.content = t.file.content

C23_MarkedAtBatchStart ==
    [][RunBatchAudit =>
        /\ Len(files') = Len(files)
        /\ \A i \in 1..Len(files) :
            /\ files'[i].isProcessing = (~HasResult(files[i]) \/ files[i].isProcessing)
            /\ files'[i] = IF HasResult(files[i]) THEN files[i]
                           ELSE [files[i] EXCEPT !.isProcessing = TRUE]
        /\ \A id \in UnprocessedIds : FileById(files', id).isProcessing
        /\ \A t \in BagToSet(workers') : AtFirstAwait(t)
        /\ Ids(queue') \cup TaskIds(workers') = UnprocessedIds]_vars

(* C24: when every pending extraction and every pending judgment call       *)
(* eventually resolves or rejects, a running batch eventually completes:    *)
(* the queue is empty, no worker is left and isProcessingBatch is false.    *)
C24_BatchTerminates ==
    isProcessingBatch ~>
        (~isProcessingBatch /\ queue = <<>> /\ workers = EmptyBag)

\* a batch over more documents than CONCURRENT_LIMIT has completed with
\* successes and failures
C24_Witness ==
    /\ ~isProcessingBatch
    /\ queue = <<>>
    /\ workers = EmptyBag
    /\ Len(files) > CONCURRENT_LIMIT
    /\ \A i \in 1..Len(files) : HasResult(files[i])
    /\ StatusCount(files, "ERROR") >= 1
    /\ StatusCount(files, "PASS") >= 1

(* C25: the step in which a worker comes back with a document's verdict     *)
(* adds that document to the expanded set exactly when the verdict written  *)
(* has at least one issue, and adds no other document.  The expanded set    *)
(* has no effect on the batch: a step that changes nothing but the expanded *)
(* set leaves every document, the queue and the workers as they are and     *)
(* leaves the same steps possible, and a batch takes up the documents       *)
(* without a verdict whether expanded or not.                               *)
C25_AutoExpansion ==
    [][/\ \A t \in BagToSet(workers) : Returned(t) =>
            /\ t.file.id \in Ids(files) =>
                 expandedFiles' =
                    IF Len(FileById(files', t.file.id).auditResult.issues) > 0
                    THEN expandedFiles \cup {t.file.id}
                    ELSE expandedFiles
            /\ expandedFiles' \subseteq expandedFiles \cup {t.file.id}
            /\ expandedFiles \subseteq expandedFiles'
       /\ (workers' = workers /\ expandedFiles' # expandedFiles) =>
            /\ UNCHANGED <<files, isProcessingBatch, queue, filesToProcess, dequeued>>
            /\ (ENABLED RunBatchAudit)' = ENABLED RunBatchAudit
            /\ (ENABLED ExtractDone)' = ENABLED ExtractDone
            /\ (ENABLED ExtractFail)' = ENABLED ExtractFail
            /\ (ENABLED JudgeDone)' = ENABLED JudgeDone
       /\ RunBatchAudit =>
            /\ TaskIds(workers') \cup Ids(queue') = UnprocessedIds
            /\ expandedFiles' = expandedFiles]_vars

\* a document whose verdict has an issue is expanded, and one whose
\* extraction failed (a verdict with no issue) is not
C25_Witness ==
    /\ Len(files) = 2
    /\ \A i \in 1..Len(files) : HasResult(files[i])
    /\ \E i, j \in 1..Len(files) :
        /\ files[i].auditResult = analyzeReport(Response(200, FailBody))
        /\ files[j].auditResult.summary = ProcessFileFailedSummary
        /\ expandedFiles = {files[i].id}

(* C26: a document that has a verdict and stays in the registry has a       *)
(* verdict after every step (in a run in which Math.random has handed out   *)
(* no id twice, so that an id names one document).                          *)
C26_VerdictKept ==
    [][NoIdTwice' =>
        \A i \in 1..Len(files) :
            (HasResult(files[i]) /\ files[i].id \in Ids(files')) =>
                HasResult(FileById(files', files[i].id))]_vars

(* C27: when no batch is running, no document is marked as processing (in a *)
(* run in which Math.random has handed out no id twice).                    *)
C27_IdleMeansUnmarked ==
    (NoIdTwice /\ ~isProcessingBatch) =>
        \A i \in 1..Len(files) : ~files[i].isProcessing

(* C28: no document is marked as processing while it has a verdict.         *)
C28_NoVerdictWhileProcessing ==
    \A i \in 1..Len(files) : ~(files[i].isProcessing /\ HasResult(files[i]))

(* C29: one batch at a time.  The start button does nothing while a batch   *)
(* is running or while the document list is empty; every worker belongs to  *)
(* the running batch; isProcessingBatch is true as long as a worker of the  *)
(* batch is left, from the step that starts the batch to the step in which  *)
(* its last worker returns, and a batch starts only when no worker is left. *)
C29_OneBatchAtATime ==
    [][/\ (isProcessingBatch \/ Len(files) = 0) => ~ENABLED RunBatchAudit
       /\ (workers # EmptyBag) = isProcessingBatch
       /\ (workers' # EmptyBag) = isProcessingBatch'
       /\ TaskIds(workers') \subseteq Range(filesToProcess')
       /\ BatchStarts => workers = EmptyBag /\ queue = <<>>
       /\ (isProcessingBatch /\ isProcessingBatch') =>
            /\ filesToProcess' = filesToProcess
            /\ batchRules' = batchRules
            /\ Len(dequeued') >= Len(dequeued)
            /\ SubSeq(dequeued', 1, Len(dequeued)) = dequeued]_vars

\* a batch is running with more than one worker left, one of its documents
\* is done, and a document uploaded since its start waits for the next batch
C29_Witness ==
    /\ isProcessingBatch
    /\ BagCardinality(workers) > 1
    /\ \E i \in 1..Len(files) :
        files[i].id \in Range(filesToProcess) /\ HasResult(files[i])
    /\ \E i \in 1..Len(files) :
        /\ ~HasResult(files[i])
        /\ ~files[i].isProcessing
        /\ files[i].id \notin Range(filesToProcess)

(* C30: a judgment request carries the content of its document (the empty  *)
(* string for a document with nothing in it), and is issued either when    *)
(* the document is taken with its content already there or in the step in  *)
(* which its extraction resolves; the step in which a                      *)
(* document's extraction fails issues no request for it, ends its call and  *)
(* writes the ERROR verdict of the failed extraction.                       *)
C30_NoJudgmentWithoutContent ==
    [][/\ \A u \in BagToSet(workers') : u.stage = "judge" =>
            u.content = Html(u.file.file)
       /\ \A u \in BagToSet(workers') : Requested(u) =>
            \/ u.file.content # "" /\ u.file.content = u.content
            \/ \E t \in BagToSet(workers) :
                /\ t.stage = "extract"
                /\ t.file = u.file
                /\ ExtractResolve(t)
       /\ \A t \in BagToSet(workers) :
            (t.stage = "extract" /\ Returned(t)) =>
                /\ \A u \in BagToSet(workers') : Requested(u) => u.file # t.file
                /\ InFlight(workers', t.file.id) < InFlight(workers, t.file.id)
                    \/ (Len(queue) > 0 /\ Head(queue).id = t.file.id)
                /\ t.file.id \in Ids(files) =>
                     FileById(files', t.file.id).auditResult
                        = AuditResult("ERROR", ProcessFileFailedSummary, <<>>)]_vars

\* the extraction of one document of the running batch has failed, and the
\* request of another, taken with its content already there, is in flight
C30_Witness ==
    /\ isProcessingBatch
    /\ \E t \in BagToSet(workers) :
        /\ t.stage = "judge"
        /\ t.content # ""
        /\ t.file.content = t.content
    /\ \E i \in 1..Len(files) :
        /\ files[i].id \in Range(filesToProcess)
        /\ files[i].auditResult = AuditResult("ERROR", ProcessFileFailedSummary, <<>>)
        /\ files[i].content = ""

====
